---- MODULE Spec2Model ----
(***************************************************************************)
(* Outline extraction (ext2.py, ext3.py) and persona-driven section        *)
(* analysis (src/persona_analyst.py).                                      *)
(*                                                                         *)
(* Text is a sequence of one-character strings.  Font sizes of ext2 are    *)
(* integers in hundredths of a point; the comparison                       *)
(* size >= threshold * 0.9  is written  10 * size >= 9 * threshold.        *)
(***************************************************************************)
EXTENDS Integers, Sequences, FiniteSets, TLC

(***************************************************************************)
(* Bounds of the model.                                                    *)
(***************************************************************************)
\* longest exhaustively enumerated page line (longer lines are the samples)
MaxLineLen == 4

\* most words on the first page in the title specification
MaxTitleWords == 3

\* most lines of a document, all pages together
MaxDocLines == 3

\* most pages of a document
MaxPages == 2

\* most documents in one run
MaxDocs == 2

\* most sentences of a section text
MaxSentences == 3

\* most sections handed to the ranking step
MaxSections == 6

(***************************************************************************)
(* Characters and the str methods the code uses.                           *)
(***************************************************************************)
Digits == {"0", "1", "2", "3", "4", "5", "6", "7", "8", "9"}

UpperSeq == <<"A", "B", "C", "D", "E", "F", "G", "H", "I", "J", "K", "L", "M",
              "N", "O", "P", "Q", "R", "S", "T", "U", "V", "W", "X", "Y", "Z">>

LowerSeq == <<"a", "b", "c", "d", "e", "f", "g", "h", "i", "j", "k", "l", "m",
              "n", "o", "p", "q", "r", "s", "t", "u", "v", "w", "x", "y", "z">>

Uppers == {UpperSeq[i] : i \in 1..26}

Lowers == {LowerSeq[i] : i \in 1..26}

Whitespace == {" ", "\t"}

\* str.lower() on one character
LowerChar(c) ==
    IF c \in Uppers THEN LowerSeq[CHOOSE i \in 1..26 : UpperSeq[i] = c] ELSE c

\* str.lower()
Lower(s) == [i \in 1..Len(s) |-> LowerChar(s[i])]

\* str.isupper(): at least one cased character and no lowercase one
IsUpper(s) ==
    /\ \E i \in 1..Len(s) : s[i] \in Uppers
    /\ \A i \in 1..Len(s) : s[i] \notin Lowers

\* every character of s[i..j] belongs to the class cls (true when i > j)
AllIn(s, i, j, cls) == \A k \in i..j : s[k] \in cls

RECURSIVE LStrip(_)
LStrip(s) ==
    IF s = <<>> THEN <<>>
    ELSE IF s[1] \in Whitespace THEN LStrip(Tail(s)) ELSE s

RECURSIVE RStrip(_)
RStrip(s) ==
    IF s = <<>> THEN <<>>
    ELSE IF s[Len(s)] \in Whitespace THEN RStrip(SubSeq(s, 1, Len(s) - 1)) ELSE s

\* str.strip()
Strip(s) == RStrip(LStrip(s))

\* ''.join(c for c, _ in itertools.groupby(text))
RECURSIVE Groupby(_)
Groupby(s) ==
    IF Len(s) <= 1 THEN s
    ELSE IF s[1] = s[2] THEN Groupby(Tail(s))
    ELSE <<s[1]>> \o Groupby(Tail(s))

\* re.sub(r'\s+', ' ', text)
RECURSIVE SubSpaces(_)
SubSpaces(s) ==
    IF s = <<>> THEN <<>>
    ELSE IF s[1] \in Whitespace THEN <<" ">> \o SubSpaces(LStrip(s))
    ELSE <<s[1]>> \o SubSpaces(Tail(s))

\* clean_text without the groupby pass
clean_text_keep_runs(text) == Strip(SubSpaces(text))

clean_text(text) == Strip(SubSpaces(Groupby(text)))

\* len(text.split())
WordCount(s) ==
    Cardinality({i \in 1..Len(s) :
                    /\ s[i] \notin Whitespace
                    /\ (i = 1 \/ s[i - 1] \in Whitespace)})

\* str.endswith(suffix)
EndsWith(s, suffix) ==
    /\ Len(s) >= Len(suffix)
    /\ SubSeq(s, Len(s) - Len(suffix) + 1, Len(s)) = suffix

\* s[i..] starts with the word w, compared case-insensitively when ci
HasAt(s, i, w, ci) ==
    /\ i + Len(w) - 1 <= Len(s)
    /\ \A k \in 1..Len(w) :
          IF ci THEN LowerChar(s[i + k - 1]) = LowerChar(w[k])
          ELSE s[i + k - 1] = w[k]

(***************************************************************************)
(* The regular expressions of is_likely_heading and h_patterns.            *)
(***************************************************************************)
\* re.search(r'\.{n,}\s*\d+$', s)
DotLeader(s, n) ==
    \E i \in 1..Len(s) : \E j \in (i + n)..Len(s) : \E k \in j..Len(s) :
        /\ AllIn(s, i, j - 1, {"."})
        /\ AllIn(s, j, k - 1, Whitespace)
        /\ AllIn(s, k, Len(s), Digits)

\* re.match(r'^\d\.\d\s+[A-Z0-9\s]+$', s)
RevisionRow(s) ==
    /\ Len(s) >= 5
    /\ s[1] \in Digits /\ s[2] = "." /\ s[3] \in Digits
    /\ s[4] \in Whitespace
    /\ AllIn(s, 5, Len(s), Uppers \cup Digits \cup Whitespace)

\* re.match(r'^\d+\.\s', s)
NumberedDot(s) ==
    \E n \in 1..(Len(s) - 2) :
        /\ AllIn(s, 1, n, Digits)
        /\ s[n + 1] = "."
        /\ s[n + 2] \in Whitespace

\* re.fullmatch(r'\d+', s)
OnlyDigits(s) == Len(s) >= 1 /\ AllIn(s, 1, Len(s), Digits)

\* re.fullmatch(r'Page\s*\d+(\s*of\s*\d+)?', s, re.IGNORECASE)
PageFooter(s) ==
    /\ HasAt(s, 1, <<"P", "a", "g", "e">>, TRUE)
    /\ \E a \in 5..Len(s) : \E b \in a..Len(s) :
          /\ AllIn(s, 5, a - 1, Whitespace)
          /\ AllIn(s, a, b, Digits)
          /\ \/ b = Len(s)
             \/ \E c \in (b + 1)..Len(s) : \E d \in (c + 2)..Len(s) :
                   /\ AllIn(s, b + 1, c - 1, Whitespace)
                   /\ HasAt(s, c, <<"o", "f">>, TRUE)
                   /\ AllIn(s, c + 2, d - 1, Whitespace)
                   /\ AllIn(s, d, Len(s), Digits)

\* from position i: k dot-separated digit groups, then whitespace, i.e.
\* re.match(r'^\d+(\.\d+){k-1}\s+.*', s) when i = 1
RECURSIVE DottedNumber(_, _, _)
DottedNumber(s, i, k) ==
    \E j \in i..Len(s) :
        /\ AllIn(s, i, j, Digits)
        /\ IF k = 1 THEN j + 1 <= Len(s) /\ s[j + 1] \in Whitespace
           ELSE /\ j + 2 <= Len(s)
                /\ s[j + 1] = "."
                /\ DottedNumber(s, j + 2, k - 1)

\* re.match(r'^(Appendix\s[A-Z]|\d+)\.\s+.*', s)
PatternH1(s) ==
    \/ NumberedDot(s)
    \/ /\ HasAt(s, 1, <<"A", "p", "p", "e", "n", "d", "i", "x">>, FALSE)
       /\ Len(s) >= 12
       /\ s[9] \in Whitespace
       /\ s[10] \in Uppers
       /\ s[11] = "."
       /\ s[12] \in Whitespace

PatternH2(s) == DottedNumber(s, 1, 2)

PatternH3(s) == DottedNumber(s, 1, 3)

PatternH4(s) == DottedNumber(s, 1, 4)

(***************************************************************************)
(* ext2.py: font statistics, is_likely_heading and level assignment.       *)
(***************************************************************************)
Max(S) == CHOOSE m \in S : \A x \in S : x <= m

\* sorted(font_sizes.keys(), reverse=True)
RECURSIVE SortDesc(_)
SortDesc(S) ==
    IF S = {} THEN <<>> ELSE <<Max(S)>> \o SortDesc(S \ {Max(S)})

\* font_stats with the largest size only; every other threshold is 0
FontStatsLargestOnly(sorted_sizes) ==
    [h1_font_threshold |-> IF Len(sorted_sizes) > 0 THEN sorted_sizes[1] ELSE 0,
     h2_font_threshold |-> 0,
     h3_font_threshold |-> 0,
     h4_font_threshold |-> 0]

\* font_stats built from sorted_sizes; a missing rank is 0
FontStats(sorted_sizes) ==
    [h1_font_threshold |-> IF Len(sorted_sizes) > 0 THEN sorted_sizes[1] ELSE 0,
     h2_font_threshold |-> IF Len(sorted_sizes) > 1 THEN sorted_sizes[2] ELSE 0,
     h3_font_threshold |-> IF Len(sorted_sizes) > 2 THEN sorted_sizes[3] ELSE 0,
     h4_font_threshold |-> IF Len(sorted_sizes) > 3 THEN sorted_sizes[4] ELSE 0]

\* the eight rejection rules, in the order of the code
Rule1(line_text) == Len(line_text) < 3

Rule2(line_text) == DotLeader(line_text, 4)

Rule3(line_text, line_word_count) ==
    line_word_count > 12 \/ EndsWith(line_text, <<",">>)

Rule4(line_text) == RevisionRow(line_text)

Rule5(line_text, line_word_count) ==
    NumberedDot(line_text) /\ line_word_count > 8

Rule6(line_text, font_size, stats, line_word_count) ==
    /\ IsUpper(line_text)
    /\ line_word_count > 1
    /\ font_size < stats.h2_font_threshold

Rule7(line_text) == PageFooter(line_text) \/ OnlyDigits(line_text)

Rule8(line_text, font_size, is_bold, stats) ==
    /\ NumberedDot(line_text)
    /\ ~is_bold
    /\ font_size < stats.h2_font_threshold

Rejected(line_text, font_size, is_bold, stats, line_word_count) ==
    \/ Rule1(line_text)
    \/ Rule2(line_text)
    \/ Rule3(line_text, line_word_count)
    \/ Rule4(line_text)
    \/ Rule5(line_text, line_word_count)
    \/ Rule6(line_text, font_size, stats, line_word_count)
    \/ Rule7(line_text)
    \/ Rule8(line_text, font_size, is_bold, stats)

is_likely_heading(line_text, font_size, is_bold, stats, line_word_count) ==
    ~Rejected(line_text, font_size, is_bold, stats, line_word_count)

\* the style fallback for un-numbered headings
StyleLevel(line_text, font_size, is_bold, stats) ==
    IF is_bold \/ IsUpper(line_text)
    THEN IF 10 * font_size >= 9 * stats.h1_font_threshold THEN "H1"
         ELSE IF 10 * font_size >= 9 * stats.h2_font_threshold THEN "H2"
         ELSE IF 10 * font_size >= 9 * stats.h3_font_threshold THEN "H3"
         ELSE "None"
    ELSE "None"

\* the style fallback consulted before the numbering patterns
LevelStyleFirst(line_text, font_size, is_bold, stats) ==
    IF StyleLevel(line_text, font_size, is_bold, stats) # "None"
    THEN StyleLevel(line_text, font_size, is_bold, stats)
    ELSE IF PatternH4(line_text) THEN "H4"
    ELSE IF PatternH3(line_text) THEN "H3"
    ELSE IF PatternH2(line_text) THEN "H2"
    ELSE IF PatternH1(line_text) THEN "H1"
    ELSE "None"

\* current_level of a line that passed is_likely_heading
Level(line_text, font_size, is_bold, stats) ==
    IF PatternH4(line_text) THEN "H4"
    ELSE IF PatternH3(line_text) THEN "H3"
    ELSE IF PatternH2(line_text) THEN "H2"
    ELSE IF PatternH1(line_text) THEN "H1"
    ELSE StyleLevel(line_text, font_size, is_bold, stats)

\* body of the loop over the lines of a page: the entries appended to the
\* outline for one line (none or one)
HeadingEntries(raw, font_size, is_bold, stats, page_num) ==
    LET text == clean_text(raw)
        line_word_count == WordCount(text)
    IN  IF \A i \in 1..Len(raw) : raw[i] \in Whitespace THEN <<>>
        ELSE IF ~is_likely_heading(text, font_size, is_bold, stats, line_word_count)
        THEN <<>>
        ELSE IF Level(text, font_size, is_bold, stats) = "None" THEN <<>>
        ELSE <<[level |-> Level(text, font_size, is_bold, stats),
                text |-> text, page |-> page_num]>>

(***************************************************************************)
(* ext2.py, Phase 2: the title, from the words of the first page.  A word  *)
(* is [text, size, y0]; size in hundredths of a point, y0 in tenths.       *)
(***************************************************************************)
T_Untitled == <<"U", "n", "t", "i", "t", "l", "e", "d", " ", "D", "o", "c", "u", "m", "e", "n", "t">>

T_Empty == <<"E", "m", "p", "t", "y", " ", "D", "o", "c", "u", "m", "e", "n", "t">>

T_Error == <<"E", "r", "r", "o", "r", " ", "P", "r", "o", "c", "e", "s", "s", "i", "n", "g", " ", "D", "o", "c", "u", "m", "e", "n", "t">>

W_Annual == <<"A", "n", "n", "u", "a", "l">>

W_Report == <<"R", "e", "p", "o", "r", "t">>

W_2024 == <<"2", "0", "2", "4">>

T_AnnualReport == <<"A", "n", "n", "u", "a", "l", " ", "R", "e", "p", "o", "r", "t", " ", "2", "0", "2", "4">>

T_AnualReport == <<"A", "n", "u", "a", "l", " ", "R", "e", "p", "o", "r", "t", " ", "2", "0", "2", "4">>

\* round(x) of Python 3 (half to even), x given in units of 1/scale
Round(x, scale) ==
    LET q == x \div scale
        r == x % scale
    IN  IF 2 * r < scale THEN q
        ELSE IF 2 * r > scale THEN q + 1
        ELSE IF q % 2 = 0 THEN q ELSE q + 1

\* " ".join(parts)
RECURSIVE Join(_)
Join(parts) ==
    IF parts = <<>> THEN <<>>
    ELSE IF Len(parts) = 1 THEN parts[1]
    ELSE parts[1] \o <<" ">> \o Join(Tail(parts))

Min(S) == CHOOSE m \in S : \A x \in S : m <= x

\* sorted(keys)
RECURSIVE SortAsc(_)
SortAsc(S) ==
    IF S = {} THEN <<>> ELSE <<Min(S)>> \o SortAsc(S \ {Min(S)})

\* seq[:n]
Take(seq, n) == SubSeq(seq, 1, IF Len(seq) < n THEN Len(seq) ELSE n)

\* lines_with_max_font[y]: the texts of the words of row y at the largest size
RowWords(words, max_font_size, y) ==
    LET InRow(w) == /\ (w.size - max_font_size) < 10
                    /\ (max_font_size - w.size) < 10
                    /\ Round(w.y0, 10) = y
        kept == SelectSeq(words, InRow)
    IN  [i \in 1..Len(kept) |-> kept[i].text]

\* the title before the "Untitled Document" fallback
TitleText(words, max_font_size) ==
    IF max_font_size > 0
    THEN LET ys == {Round(words[i].y0, 10) : i \in
                       {k \in 1..Len(words) :
                           /\ (words[k].size - max_font_size) < 10
                           /\ (max_font_size - words[k].size) < 10}}
             sorted_y_coords == SortAsc(ys)
             top == Take(sorted_y_coords, 3)
             title_parts == [i \in 1..Len(top) |->
                                Join(RowWords(words, max_font_size, top[i]))]
         IN  IF ys = {} THEN <<>> ELSE clean_text(Join(title_parts))
    ELSE <<>>

ExtractTitle(words, max_font_size) ==
    LET title == TitleText(words, max_font_size)
    IN  IF Len(title) < 5 THEN T_Untitled ELSE title

(***************************************************************************)
(* Page lines fed to the classifier.                                       *)
(***************************************************************************)
L_Background == <<"1", ".", "2", ".", "3", " ", "B", "a", "c", "k", "g", "r", "o", "u", "n", "d">>

L_TocRow == <<"A", "b", " ", ".", ".", ".", ".", ".", " ", "5">>

L_TocBare == <<".", ".", ".", ".", ".", ".", ".", " ", "4", "2">>

L_Thirteen == <<"a", " ", "b", " ", "c", " ", "d", " ", "e", " ", "f", " ", "g", " ", "h", " ", "i", " ", "j", " ", "k", " ", "l", " ", "m">>

L_Twelve == <<"a", " ", "b", " ", "c", " ", "d", " ", "e", " ", "f", " ", "g", " ", "h", " ", "i", " ", "j", " ", "k", " ", "l">>

L_NumLong == <<"1", ".", " ", "a", " ", "b", " ", "c", " ", "d", " ", "e", " ", "f", " ", "g", " ", "h">>

L_NumShort == <<"1", ".", " ", "I", "n", "t", "r", "o">>

L_Caps == <<"T", "O", "T", "A", "L", " ", "B", "U", "D", "G", "E", "T", " ", "O", "V", "E", "R", "V", "I", "E", "W">>

L_Page == <<"P", "a", "g", "e", " ", "1", " ", "o", "f", " ", "2">>

L_Rev == <<"0", ".", "1", " ", "1", "8", " ", "J", "U", "N", "E">>

L_Four == <<"1", ".", "2", ".", "3", ".", "4", " ", "D", "e", "e", "p">>

L_Two == <<"2", ".", "1", " ", "S", "c", "o", "p", "e">>

L_Appendix == <<"A", "p", "p", "e", "n", "d", "i", "x", " ", "A", ".", " ", "D", "a", "t", "a">>

L_Plain == <<"S", "u", "m", "m", "a", "r", "y">>

L_Comma == <<"S", "u", "m", "m", "a", "r", "y", ",">>

L_Digits == <<"4", "2">>

SampleLines ==
    {L_Background, L_TocRow, L_TocBare, L_Thirteen, L_Twelve, L_NumLong,
     L_NumShort, L_Caps, L_Page, L_Rev, L_Four, L_Two, L_Appendix, L_Plain,
     L_Comma, L_Digits}

LineAlphabet == {"1", ".", " ", "A", "b"}

\* extract_text_lines(layout=True, strip=True): a line is not empty and
\* has no leading or trailing whitespace
RawLines ==
    SampleLines \cup
    {s \in UNION {[1..n -> LineAlphabet] : n \in 1..MaxLineLen} :
        s[1] \notin Whitespace /\ s[Len(s)] \notin Whitespace}

\* font sizes in hundredths of a point, as round(size, 2) keeps them
FontSizes == {700, 900, 1000, 1100, 1200}

(***************************************************************************)
(* ext2.py on a whole document.  A document is a sequence of pages, a page *)
(* a sequence of lines [text, size, bold] in reading order; every          *)
(* character of a line has the size of the line, and the rows of the first *)
(* page have ascending y0 in reading order.                                *)
(***************************************************************************)
D_Intro == <<"I", "n", "t", "r", "o">>

D_INTRO == <<"I", "N", "T", "R", "O">>

D_Body == <<"p", "l", "a", "i", "n", " ", "t", "e", "x", "t">>

\* font_sizes.keys() after Phase 1
DocSizes(doc) ==
    UNION {{doc[p][l].size : l \in 1..Len(doc[p])} : p \in 1..Len(doc)}

\* text.split()
RECURSIVE Split(_)
Split(s) ==
    LET rest == LStrip(s)
        ends == {i \in 1..Len(rest) : rest[i] \in Whitespace}
        stop == IF ends = {} THEN Len(rest) + 1 ELSE Min(ends)
    IN  IF rest = <<>> THEN <<>>
        ELSE <<SubSeq(rest, 1, stop - 1)>> \o Split(SubSeq(rest, stop, Len(rest)))

\* first_page.extract_words(): the words of the rows of the page
RECURSIVE PageWords(_, _)
PageWords(page, k) ==
    IF k > Len(page) THEN <<>>
    ELSE LET ws == Split(page[k].text)
         IN  [i \in 1..Len(ws) |->
                 [text |-> ws[i], size |-> page[k].size, y0 |-> 100 * k]]
             \o PageWords(page, k + 1)

\* Phase 3 on the lines k.. of one page
RECURSIVE PageHeadings(_, _, _, _)
PageHeadings(page, k, stats, page_num) ==
    IF k > Len(page) THEN <<>>
    ELSE HeadingEntries(page[k].text, page[k].size, page[k].bold, stats, page_num)
         \o PageHeadings(page, k + 1, stats, page_num)

\* Phase 3: the outline before post-processing, pages page_num.. of doc
RECURSIVE DocHeadings(_, _, _)
DocHeadings(doc, page_num, stats) ==
    IF page_num > Len(doc) THEN <<>>
    ELSE PageHeadings(doc[page_num], 1, stats, page_num)
         \o DocHeadings(doc, page_num + 1, stats)

\* Phase 4 keyed on the text as it is, not lowercased
RECURSIVE DedupCaseSensitive(_, _)
DedupCaseSensitive(outline, seen_entries) ==
    IF outline = <<>> THEN <<>>
    ELSE LET entry == Head(outline)
             entry_tuple == <<entry.text, entry.page>>
         IN  IF entry_tuple \notin seen_entries
             THEN <<entry>> \o DedupCaseSensitive(Tail(outline),
                                                  seen_entries \cup {entry_tuple})
             ELSE DedupCaseSensitive(Tail(outline), seen_entries)

\* Phase 4 keeping the last entry of every key, not the first
RECURSIVE DedupKeepLast(_, _)
DedupKeepLast(outline, seen_entries) ==
    IF outline = <<>> THEN <<>>
    ELSE LET entry == Head(outline)
             entry_tuple == <<Lower(entry.text), entry.page>>
             later == {<<Lower(Tail(outline)[i].text), Tail(outline)[i].page>> :
                          i \in 1..Len(Tail(outline))}
         IN  IF entry_tuple \notin later
             THEN <<entry>> \o DedupKeepLast(Tail(outline), seen_entries)
             ELSE DedupKeepLast(Tail(outline), seen_entries)

\* Phase 4: final_outline for the rest of the outline, given seen_entries
RECURSIVE Dedup(_, _)
Dedup(outline, seen_entries) ==
    IF outline = <<>> THEN <<>>
    ELSE LET entry == Head(outline)
             entry_tuple == <<Lower(entry.text), entry.page>>
         IN  IF entry_tuple \notin seen_entries
             THEN <<entry>> \o Dedup(Tail(outline), seen_entries \cup {entry_tuple})
             ELSE Dedup(Tail(outline), seen_entries)

ErrorResult == [title |-> T_Error, outline |-> <<>>]

\* where the PDF collaborator may raise inside the try block
FailPoints == {"none", "open", "headings", "dedup"}

\* the outline accumulated by Phase 3 when the run gets that far
OutlineBeforeDedup(doc, fail_at) ==
    IF fail_at \in {"none", "dedup"} /\ doc # <<>>
    THEN DocHeadings(doc, 1, FontStats(SortDesc(DocSizes(doc))))
    ELSE <<>>

\* a failure that returns what was computed so far
ExtractOutlineLeaky(doc, fail_at) ==
    IF fail_at \in {"open", "headings"} THEN ErrorResult
    ELSE IF doc = <<>> THEN [title |-> T_Empty, outline |-> <<>>]
    ELSE LET stats == FontStats(SortDesc(DocSizes(doc)))
         IN  [title |-> ExtractTitle(PageWords(doc[1], 1), stats.h1_font_threshold),
              outline |-> IF fail_at = "dedup" THEN OutlineBeforeDedup(doc, fail_at)
                          ELSE Dedup(OutlineBeforeDedup(doc, fail_at), {})]

\* extract_outline_with_pdfplumber(pdf_path)
ExtractOutline(doc, fail_at) ==
    IF fail_at # "none" THEN ErrorResult
    ELSE IF doc = <<>> THEN [title |-> T_Empty, outline |-> <<>>]
    ELSE LET stats == FontStats(SortDesc(DocSizes(doc)))
         IN  [title |-> ExtractTitle(PageWords(doc[1], 1), stats.h1_font_threshold),
              outline |-> Dedup(OutlineBeforeDedup(doc, fail_at), {})]

(***************************************************************************)
(* ext3.py: analyze_document_styles, the size-to-level map and the loop    *)
(* body of Phase 3.  font_sizes maps a rounded size (points) to the number *)
(* of words of that size.                                                  *)
(***************************************************************************)
\* the sizes that max(font_sizes, key=font_sizes.get) can return: the most
\* frequent ones; among equally frequent sizes the first one inserted wins,
\* which depends on the order of the words of the document
BodySizes(sizes) ==
    {b \in DOMAIN sizes :
        sizes[b] > 0 /\ \A x \in DOMAIN sizes : sizes[x] <= sizes[b]}

\* sorted([size for size in font_sizes if size > body_size + 1], reverse=True)
HeadingSizes(sizes, body) ==
    SortDesc({x \in DOMAIN sizes : sizes[x] > 0 /\ x > body + 1})

\* f"H{i+1}"
LevelNames == <<"H1", "H2", "H3", "H4", "H5", "H6", "H7", "H8", "H9">>

\* level_map = {size: f"H{i+1}" for i, size in enumerate(heading_sizes)}
LevelMap(sizes) ==
    [x \in {sizes[i] : i \in 1..Len(sizes)} |->
        LevelNames[CHOOSE k \in 1..Len(sizes) : sizes[k] = x]]

\* re.match(r'^\d\.\d\s', s)
RevisionPrefix(s) ==
    /\ Len(s) >= 4
    /\ s[1] \in Digits /\ s[2] = "." /\ s[3] \in Digits
    /\ s[4] \in Whitespace

\* re.match(r'^\d+(\.\d+)*\s', s)
AnyDottedNumber(s) == \E k \in 1..Len(s) : DottedNumber(s, 1, k)

\* body of the loop over the rows of a page in ext3: the entries appended
\* to the outline for the row whose words, joined, read raw
HeadingEntries3(raw, raw_size, is_bold, sizes, page_num) ==
    LET line_words == Split(raw)
        line_text == clean_text(Join(line_words))
        font_size == Round(raw_size, 100)
        level_map == LevelMap(sizes)
    IN  IF line_words = <<>> THEN <<>>
        ELSE IF font_size \notin DOMAIN level_map THEN <<>>
        ELSE IF ~is_bold /\ ~IsUpper(line_text) THEN <<>>
        ELSE IF DotLeader(line_text, 3) THEN <<>>
        ELSE IF RevisionPrefix(line_text) THEN <<>>
        ELSE IF AnyDottedNumber(line_text) /\ Len(line_words) > 8 THEN <<>>
        ELSE IF Len(line_words) > 12 THEN <<>>
        ELSE <<[level |-> level_map[font_size], text |-> line_text,
                page |-> page_num]>>

(***************************************************************************)
(* persona_analyst.py: section text and the gathering of sections.         *)
(***************************************************************************)
\* the names bound in the module namespace of persona_analyst.py when its
\* functions run: the imports of lines 2-19, nlp, and the two functions
ModuleNames ==
    {"os", "json", "sys", "spacy", "defaultdict", "TfidfVectorizer",
     "cosine_similarity", "np", "datetime", "extract_outline_with_pdfplumber",
     "nlp", "get_text_content_for_section", "analyze_document_collection"}

\* sub in s
Contains(s, sub) ==
    \E i \in 0..(Len(s) - Len(sub)) : SubSeq(s, i + 1, i + Len(sub)) = sub

\* the inner loop over the lines k.. of one page: the indices of the lines
\* appended to text_content_parts; check_end says that this is the page of
\* the next section and that a next section was given
RECURSIVE ScanPage(_, _, _, _, _, _)
ScanPage(page, k, found_title, section_title, check_end, next_section_title) ==
    IF k > Len(page) THEN <<>>
    ELSE LET cleaned_line_text == Strip(page[k].text)
         IN  IF ~found_title
             THEN IF Contains(cleaned_line_text, section_title)
                  THEN <<k>>
                       \o ScanPage(page, k + 1, TRUE, section_title, check_end,
                                   next_section_title)
                  ELSE ScanPage(page, k + 1, FALSE, section_title, check_end,
                                next_section_title)
             ELSE IF check_end /\ Contains(cleaned_line_text, next_section_title)
             THEN <<>>
             ELSE <<k>>
                  \o ScanPage(page, k + 1, TRUE, section_title, check_end,
                              next_section_title)

\* the outer loop over the pages p.. (1-based): the lines appended to
\* text_content_parts, each as <<page, index of the line in the page>>; a
\* missing next section is page 0 and the empty title
RECURSIVE ScanPages(_, _, _, _, _)
ScanPages(doc, p, section_title, next_section_page_number, next_section_title) ==
    IF p > Len(doc) THEN <<>>
    ELSE LET has_next == next_section_page_number # 0 /\ next_section_title # <<>>
             ks == ScanPage(doc[p], 1, FALSE, section_title,
                            has_next /\ p = next_section_page_number,
                            next_section_title)
         IN  [i \in 1..Len(ks) |-> <<p, ks[i]>>]
             \o (IF next_section_page_number # 0 /\ p >= next_section_page_number
                 THEN <<>>
                 ELSE ScanPages(doc, p + 1, section_title,
                                next_section_page_number, next_section_title))

\* text_content_parts: cleaned_line_text of the lines at the positions at
TextContentParts(doc, at) ==
    [i \in 1..Len(at) |-> Strip(doc[at[i][1]][at[i][2]].text)]

\* re.sub(r'\s+', ' ', full_text).strip()
NormaliseSpaces(full_text) == Strip(SubSpaces(full_text))

\* get_text_content_for_section under the namespace names: whether the call
\* raises, and the text it returns otherwise
SectionText(names, doc, page_number, section_title, next_section_page_number, next_section_title) ==
    IF "pdfplumber" \in names /\ page_number > Len(doc)
    THEN [raised |-> FALSE, text |-> <<>>]
    ELSE IF "re" \notin names THEN [raised |-> TRUE, text |-> <<>>]
    ELSE LET text_content_parts ==
                 IF "pdfplumber" \notin names THEN <<>>
                 ELSE TextContentParts(doc,
                          ScanPages(doc, page_number, section_title,
                                    next_section_page_number, next_section_title))
         IN  [raised |-> FALSE,
              text |-> NormaliseSpaces(Join(text_content_parts))]

get_text_content_for_section(doc, page_number, section_title, next_section_page_number, next_section_title) ==
    SectionText(ModuleNames, doc, page_number, section_title,
                next_section_page_number, next_section_title)

\* Step 1 for one document, sections i.. of its outline: whether a call
\* raised, and the records appended to all_extracted_sections
RECURSIVE GatherSections(_, _, _, _)
GatherSections(doc, doc_name, entries, i) ==
    IF i > Len(entries) THEN [raised |-> FALSE, sections |-> <<>>]
    ELSE LET has_next == i + 1 <= Len(entries)
             got == get_text_content_for_section(doc, entries[i].page,
                        entries[i].text,
                        IF has_next THEN entries[i + 1].page ELSE 0,
                        IF has_next THEN entries[i + 1].text ELSE <<>>)
             rest == GatherSections(doc, doc_name, entries, i + 1)
         IN  IF got.raised THEN [raised |-> TRUE, sections |-> <<>>]
             ELSE [raised |-> rest.raised,
                   sections |-> <<[document |-> doc_name,
                                   page_number |-> entries[i].page,
                                   section_title |-> entries[i].text,
                                   full_text_content |-> got.text,
                                   importance_rank |-> 0]>> \o rest.sections]

(***************************************************************************)
(* persona_analyst.py, Step 3: refinement of one ranked section.  The NLP  *)
(* collaborator gives, for a section text, its sentences; a sentence is    *)
(* [id, len, keywords]: len is len(sent.text.strip()), keywords the set of *)
(* lemmas of its alphabetic, non-stop, non-punctuation tokens.             *)
(***************************************************************************)
top_n_sections_for_sub_analysis == 5

\* the limit on the length of the retained sentences
RefinedTextLimit == 1000

\* sum(len(s) for s in relevant_sentences)
RECURSIVE TotalLen(_)
TotalLen(sentences) ==
    IF sentences = <<>> THEN 0 ELSE Head(sentences).len + TotalLen(Tail(sentences))

\* len(" ".join(relevant_sentences))
JoinedLen(sentences) ==
    IF sentences = <<>> THEN 0 ELSE TotalLen(sentences) + Len(sentences) - 1

\* union > 0 and intersection / union > 0.05
AboveThreshold(query_keywords, sent_keywords) ==
    LET intersection == Cardinality(query_keywords \cap sent_keywords)
        union == Cardinality(query_keywords \cup sent_keywords)
    IN  union > 0 /\ 20 * intersection > union

\* the loop over doc.sents without the break of lines 197-199
RECURSIVE RelevantSentencesNoCutoff(_, _, _, _)
RelevantSentencesNoCutoff(sents, k, relevant_sentences, query_keywords) ==
    IF k > Len(sents) THEN relevant_sentences
    ELSE RelevantSentencesNoCutoff(sents, k + 1,
             IF AboveThreshold(query_keywords, sents[k].keywords)
             THEN Append(relevant_sentences, sents[k])
             ELSE relevant_sentences,
             query_keywords)

\* the loop over doc.sents from sentence k on: relevant_sentences at its end
RECURSIVE RelevantSentences(_, _, _, _)
RelevantSentences(sents, k, relevant_sentences, query_keywords) ==
    IF k > Len(sents) THEN relevant_sentences
    ELSE LET kept == IF AboveThreshold(query_keywords, sents[k].keywords)
                     THEN Append(relevant_sentences, sents[k])
                     ELSE relevant_sentences
         IN  IF TotalLen(kept) > RefinedTextLimit THEN kept
             ELSE RelevantSentences(sents, k + 1, kept, query_keywords)

\* an entry appended whether or not a sentence was retained
RefinedEntriesAlways(i, section, sents, query_keywords) ==
    IF i >= top_n_sections_for_sub_analysis THEN <<>>
    ELSE IF section.full_text_content = <<>> THEN <<>>
    ELSE LET relevant_sentences == RelevantSentences(sents, 1, <<>>, query_keywords)
         IN  <<[document |-> section.document,
                page_number |-> section.page_number,
                refined_text |-> relevant_sentences]>>

\* body of the loop over ranked_sections for the section at index i
\* (0-based): the entries appended to sub_section_analysis; refined_text is
\* kept as the sequence of the sentences it joins
RefinedEntries(i, section, sents, query_keywords) ==
    IF i >= top_n_sections_for_sub_analysis THEN <<>>
    ELSE IF section.full_text_content = <<>> THEN <<>>
    ELSE LET relevant_sentences == RelevantSentences(sents, 1, <<>>, query_keywords)
         IN  IF relevant_sentences = <<>> THEN <<>>
             ELSE <<[document |-> section.document,
                     page_number |-> section.page_number,
                     refined_text |-> relevant_sentences]>>

(***************************************************************************)
(* persona_analyst.py, Step 2: ranking.                                    *)
(***************************************************************************)
\* ranked_sections with section put after the last entry whose rank is not
\* smaller, i.e. before the first entry with a smaller rank
InsertStable(ranked_sections, sec) ==
    LET smaller == {k \in 1..Len(ranked_sections) :
                       ranked_sections[k].importance_rank < sec.importance_rank}
        at == IF smaller = {} THEN Len(ranked_sections) + 1 ELSE Min(smaller)
    IN  SubSeq(ranked_sections, 1, at - 1) \o <<sec>>
        \o SubSeq(ranked_sections, at, Len(ranked_sections))

\* a descending sort that puts a section before the earlier ones of the
\* same rank
RECURSIVE SortByRankReversingTies(_)
SortByRankReversingTies(sections) ==
    IF sections = <<>> THEN <<>>
    ELSE LET rest == SortByRankReversingTies(Tail(sections))
             sec == Head(sections)
             notlarger == {k \in 1..Len(rest) :
                              rest[k].importance_rank <= sec.importance_rank}
             at == IF notlarger = {} THEN Len(rest) + 1 ELSE Min(notlarger)
         IN  SubSeq(rest, 1, at - 1) \o <<sec>> \o SubSeq(rest, at, Len(rest))

\* ranked_sections.sort(key=lambda x: x["importance_rank"], reverse=True):
\* list.sort is stable, also with reverse=True
RECURSIVE SortByRank(_)
SortByRank(sections) ==
    IF sections = <<>> THEN <<>>
    ELSE InsertStable(SortByRank(SubSeq(sections, 1, Len(sections) - 1)),
                      sections[Len(sections)])

\* {k: v for k, v in sec.items() if k != 'full_text_content'}
WithoutText(sec) ==
    [document |-> sec.document, page_number |-> sec.page_number,
     section_title |-> sec.section_title, importance_rank |-> sec.importance_rank]

\* Step 3 with the limit of line 175 applied to the number of sections
\* with a body seen so far, not to the index
RECURSIVE RefineFromCountingBodies(_, _, _, _)
RefineFromCountingBodies(ranked_sections, i, sentences, keywords) ==
    IF i >= Len(ranked_sections) THEN <<>>
    ELSE RefinedEntries(
             Cardinality({j \in 1..i : ranked_sections[j].full_text_content # <<>>}),
             ranked_sections[i + 1], sentences[i + 1], keywords)
         \o RefineFromCountingBodies(ranked_sections, i + 1, sentences, keywords)

\* Step 3 over ranked_sections from index i (0-based) on; sentences[k] is
\* doc.sents for the k-th ranked section
RECURSIVE RefineFrom(_, _, _, _)
RefineFrom(ranked_sections, i, sentences, keywords) ==
    IF i >= Len(ranked_sections) THEN <<>>
    ELSE RefinedEntries(i, ranked_sections[i + 1], sentences[i + 1], keywords)
         \o RefineFrom(ranked_sections, i + 1, sentences, keywords)

(***************************************************************************)
(* State.                                                                  *)
(***************************************************************************)
VARIABLES
    sorted_sizes,   \* ext2: distinct font sizes of the document, descending
    font_stats,     \* ext2: the four thresholds
    line,           \* ext2: the page line handled by the loop body
    appended,       \* ext2: what the loop body appended to the outline
    words,          \* ext2: first_page.extract_words(y_tolerance=3)
    max_font_size,  \* ext2: font_stats['h1_font_threshold'] in Phase 2
    title,          \* ext2: the title after Phase 2
    font_sizes,     \* ext3: rounded size -> number of words of that size
    body_size,      \* ext3: the most frequent size
    heading_sizes,  \* ext3: the sizes above body_size + 1, descending
    query_keywords, \* Step 3: lemmas of the persona and job query
    rank_pos,       \* Step 3: index i of the section in ranked_sections
    section,        \* Step 3: the ranked section of this iteration
    sents,          \* Step 3: doc.sents of nlp(section text)
    sub_section_analysis,
    refined,        \* Step 3: the loop body has run
    ranked_sections,\* Step 2: the sections after the sort
    mode,           \* "outline": ext2 __main__; "collection": persona_analyst
    num_docs,       \* len(pdf_files) / len(pdf_file_paths)
    doc_idx,        \* documents the loop over the PDFs has finished
    doc,            \* the pages of the PDF of the current iteration
    fail_at,        \* where the PDF collaborator raised on this document
    outline,        \* ext2: outline of this document before Phase 4
    outline_result, \* what extract_outline_with_pdfplumber returned
    failures,       \* documents so far whose extraction failed
    outlined,       \* outline entries returned so far, all documents
    saved,          \* ext2 __main__: output files written
    all_extracted_sections,
    pc,             \* position of the run
    result,         \* what analyze_document_collection returned
    section_info,   \* Step 1: the section boundary handed to the scan
    text_content_parts  \* the scan: positions of the lines it appended

lineVars == <<sorted_sizes, font_stats, line, appended>>

titleVars == <<words, max_font_size, title>>

styleVars == <<font_sizes, body_size, heading_sizes>>

refineVars ==
    <<query_keywords, rank_pos, section, sents, sub_section_analysis, refined,
      ranked_sections>>

sectionVars == <<section_info, text_content_parts>>

runVars ==
    <<mode, num_docs, doc_idx, doc, fail_at, outline, outline_result, failures,
      outlined, saved, all_extracted_sections, pc, result, section_info,
      text_content_parts>>

vars ==
    <<sorted_sizes, font_stats, line, appended, words, max_font_size, title,
      font_sizes, body_size, heading_sizes,
      query_keywords, rank_pos, section, sents, sub_section_analysis, refined,
      ranked_sections,
      mode, num_docs, doc_idx, doc, fail_at, outline, outline_result, failures,
      outlined, saved, all_extracted_sections, pc, result, section_info,
      text_content_parts>>

NoLine == [text |-> <<>>, size |-> 0, bold |-> FALSE]

LineIdle ==
    /\ sorted_sizes = <<>>
    /\ font_stats = FontStats(<<>>)
    /\ line = NoLine
    /\ appended = <<>>

TitleIdle ==
    /\ words = <<>>
    /\ max_font_size = 0
    /\ title = <<>>

StyleIdle ==
    /\ font_sizes = <<>>
    /\ body_size = 0
    /\ heading_sizes = <<>>

NoSection ==
    [document |-> 0, page_number |-> 0, section_title |-> <<>>,
     full_text_content |-> <<>>, importance_rank |-> 0]

RefineIdle ==
    /\ query_keywords = {}
    /\ rank_pos = 0
    /\ section = NoSection
    /\ sents = <<>>
    /\ sub_section_analysis = <<>>
    /\ refined = FALSE
    /\ ranked_sections = <<>>

NoResult == [title |-> <<>>, outline |-> <<>>]

NoReturn == [extracted_sections |-> <<>>, sub_section_analysis |-> <<>>]

NoBoundary == [title |-> <<>>, page |-> 0, next_title |-> <<>>, next_page |-> 0]

SectionIdle ==
    /\ section_info = NoBoundary
    /\ text_content_parts = <<>>

RunIdle ==
    /\ SectionIdle
    /\ mode = "none"
    /\ num_docs = 0
    /\ doc_idx = 0
    /\ doc = <<>>
    /\ fail_at = "none"
    /\ outline = <<>>
    /\ outline_result = NoResult
    /\ failures = 0
    /\ outlined = 0
    /\ saved = 0
    /\ all_extracted_sections = <<>>
    /\ pc = "idle"
    /\ result = NoReturn

(***************************************************************************)
(* SpecLine: Phase 1 of ext2 on a document with some set of font sizes,    *)
(* then the Phase 3 loop body on one line of its first page.               *)
(***************************************************************************)
InitLine ==
    /\ \E used \in (SUBSET FontSizes) \ {{}} : sorted_sizes = SortDesc(used)
    /\ font_stats = FontStats(sorted_sizes)
    /\ line = NoLine
    /\ appended = <<>>
    /\ TitleIdle
    /\ StyleIdle
    /\ RefineIdle
    /\ RunIdle

ProcessLine ==
    /\ line = NoLine
    /\ \E raw \in RawLines, i \in 1..Len(sorted_sizes), is_bold \in BOOLEAN :
          /\ line' = [text |-> raw, size |-> sorted_sizes[i], bold |-> is_bold]
          /\ appended' = HeadingEntries(raw, sorted_sizes[i], is_bold, font_stats, 1)
    /\ UNCHANGED <<sorted_sizes, font_stats>>
    /\ UNCHANGED titleVars
    /\ UNCHANGED styleVars
    /\ UNCHANGED refineVars
    /\ UNCHANGED runVars

NextLine == ProcessLine

SpecLine == InitLine /\ [][NextLine]_vars

\* the cleaned text and word count the loop body works on
LineText == clean_text(line.text)

LineWords == WordCount(LineText)

LinePasses == is_likely_heading(LineText, line.size, line.bold, font_stats, LineWords)

Levels == {"H1", "H2", "H3", "H4"}

\* C2: a page line that satisfies one of the eight rejection rules never
\* appears in the outline, whatever its numbering, font size or boldness;
\* a 13-word line and a dot-leader row with a page number in particular.
C2_RejectionsPreempt ==
    (line # NoLine /\ Rejected(line.text, line.size, line.bold, font_stats,
                               WordCount(line.text)))
        => appended = <<>>

NoNumbering ==
    /\ ~PatternH4(LineText)
    /\ ~PatternH3(LineText)
    /\ ~PatternH2(LineText)
    /\ ~PatternH1(LineText)

\* the threshold of a level
ThresholdOf(level) ==
    CASE level = "H1" -> font_stats.h1_font_threshold
      [] level = "H2" -> font_stats.h2_font_threshold
      [] level = "H3" -> font_stats.h3_font_threshold
      [] OTHER -> font_stats.h4_font_threshold

NonZeroThresholds ==
    {font_stats.h1_font_threshold, font_stats.h2_font_threshold,
     font_stats.h3_font_threshold, font_stats.h4_font_threshold} \ {0}

\* C17: a threshold that is 0 because the document has fewer distinct font
\* sizes than levels never triggers: for every line and font profile the
\* style fallback never assigns the level whose threshold is 0, and a bold
\* or uppercase line whose size is below 0.9 times every non-zero threshold
\* gets no level.
C17_ZeroThresholdNeverTriggers ==
    (line # NoLine /\ LinePasses /\ NoNumbering) =>
        /\ appended # <<>> => ThresholdOf(appended[1].level) # 0
        /\ (/\ line.bold \/ IsUpper(LineText)
            /\ \A t \in NonZeroThresholds : 10 * line.size < 9 * t)
              => appended = <<>>

\* a document with two font sizes: a bold line of the smaller size, below
\* 0.9 times the larger, is H2 and not H3, whose threshold is 0
C17_Witness ==
    /\ line # NoLine
    /\ LinePasses
    /\ NoNumbering
    /\ line.bold
    /\ Len(sorted_sizes) = 2
    /\ font_stats.h3_font_threshold = 0
    /\ line.size = sorted_sizes[2]
    /\ 10 * line.size < 9 * font_stats.h1_font_threshold
    /\ appended # <<>>
    /\ appended[1].level = "H2"

(***************************************************************************)
(* SpecTitle: Phase 2 of ext2 on the words of a first page.                *)
(***************************************************************************)
TitleWordTexts == {W_Annual, W_Report, W_2024}

TitleWordSizes == {1200, 1400}

TitleWordY0 == {100, 104, 200, 300, 400}

TitleWords ==
    [text : TitleWordTexts, size : TitleWordSizes, y0 : TitleWordY0]

InitTitle ==
    /\ LineIdle
    /\ StyleIdle
    /\ RefineIdle
    /\ RunIdle
    /\ words \in UNION {[1..n -> TitleWords] : n \in 0..MaxTitleWords}
    /\ max_font_size = Max(TitleWordSizes)
    /\ title = <<>>

TitleExtraction ==
    /\ title = <<>>
    /\ title' = ExtractTitle(words, max_font_size)
    /\ UNCHANGED <<words, max_font_size>>
    /\ UNCHANGED lineVars
    /\ UNCHANGED styleVars
    /\ UNCHANGED refineVars
    /\ UNCHANGED runVars

NextTitle == TitleExtraction

SpecTitle == InitTitle /\ [][NextTitle]_vars

\* the first page of the scenario: the largest size (14.0) on two
\* consecutive rows, "Annual" and "Report 2024"
AnnualReportPage ==
    /\ Len(words) = 3
    /\ words[1] = [text |-> W_Annual, size |-> 1400, y0 |-> 100]
    /\ words[2].text = W_Report /\ words[3].text = W_2024
    /\ words[2].size = 1400 /\ words[3].size = 1400
    /\ words[2].y0 = 200 /\ words[3].y0 = 200

\* C8 as stated: on that first page the title is "Annual Report 2024".
C8_TitleAsStated ==
    (AnnualReportPage /\ title # <<>>) => title = T_AnnualReport

\* C8 (amended): on that first page the rows are joined in ascending row
\* order with single spaces and passed through clean_text, which collapses
\* the doubled "n": the title is "Anual Report 2024".
C8_TitleCleaned ==
    (AnnualReportPage /\ title # <<>>) => title = T_AnualReport

C8_Witness == AnnualReportPage /\ title = T_AnualReport

(***************************************************************************)
(* Spec: a run over the PDFs of the input, either the batch of ext2        *)
(* (__main__, one outline file per PDF) or analyze_document_collection.    *)
(***************************************************************************)
DocLines ==
    {[text |-> D_Intro, size |-> 1200, bold |-> TRUE],
     [text |-> D_INTRO, size |-> 1200, bold |-> FALSE],
     [text |-> L_Plain, size |-> 1200, bold |-> TRUE],
     [text |-> D_Body, size |-> 1000, bold |-> FALSE]}

DocPages == UNION {[1..n -> DocLines] : n \in 0..MaxDocLines}

RECURSIVE TotalLines(_)
TotalLines(d) == IF d = <<>> THEN 0 ELSE Len(Head(d)) + TotalLines(Tail(d))

Docs ==
    {d \in UNION {[1..n -> DocPages] : n \in 0..MaxPages} :
        TotalLines(d) <= MaxDocLines}

Init ==
    /\ LineIdle
    /\ TitleIdle
    /\ StyleIdle
    /\ RefineIdle
    /\ SectionIdle
    /\ mode \in {"outline", "collection"}
    /\ num_docs \in 1..MaxDocs
    /\ doc_idx = 0
    /\ doc = <<>>
    /\ fail_at = "none"
    /\ outline = <<>>
    /\ outline_result = NoResult
    /\ failures = 0
    /\ outlined = 0
    /\ saved = 0
    /\ all_extracted_sections = <<>>
    /\ pc = "extract"
    /\ result = NoReturn

\* result = extract_outline_with_pdfplumber(pdf_path), in either loop
Extract ==
    /\ pc = "extract"
    /\ doc_idx < num_docs
    /\ \E d \in Docs, f \in FailPoints :
          /\ doc' = d
          /\ fail_at' = f
          /\ outline' = OutlineBeforeDedup(d, f)
          /\ outline_result' = ExtractOutline(d, f)
          /\ failures' = IF f = "none" THEN failures ELSE failures + 1
          /\ outlined' = outlined + Len(ExtractOutline(d, f).outline)
    /\ pc' = IF mode = "outline" THEN "save" ELSE "gather"
    /\ UNCHANGED <<mode, num_docs, doc_idx, saved, all_extracted_sections, result>>
    /\ UNCHANGED <<lineVars, titleVars, styleVars, refineVars, sectionVars>>

\* ext2 __main__: json.dump(result, f) and on to the next PDF
Save ==
    /\ pc = "save"
    /\ saved' = saved + 1
    /\ doc_idx' = doc_idx + 1
    /\ pc' = IF doc_idx + 1 < num_docs THEN "extract" ELSE "done"
    /\ doc' = <<>>
    /\ fail_at' = "none"
    /\ outline' = <<>>
    /\ outline_result' = NoResult
    /\ UNCHANGED <<mode, num_docs, failures, outlined, all_extracted_sections, result>>
    /\ UNCHANGED <<lineVars, titleVars, styleVars, refineVars, sectionVars>>

\* Step 1 of analyze_document_collection for the current PDF: the section
\* boundaries and one get_text_content_for_section call per outline entry
Gather ==
    /\ pc = "gather"
    /\ LET got == GatherSections(doc, doc_idx + 1, outline_result.outline, 1)
       IN  IF got.raised
           THEN /\ pc' = "raised"
                /\ UNCHANGED <<doc_idx, doc, fail_at, outline, outline_result,
                               all_extracted_sections>>
           ELSE /\ all_extracted_sections' = all_extracted_sections \o got.sections
                /\ doc_idx' = doc_idx + 1
                /\ pc' = IF doc_idx + 1 < num_docs THEN "extract" ELSE "check_empty"
                /\ doc' = <<>>
                /\ fail_at' = "none"
                /\ outline' = <<>>
                /\ outline_result' = NoResult
    /\ UNCHANGED <<mode, num_docs, failures, outlined, saved, result>>
    /\ UNCHANGED <<lineVars, titleVars, styleVars, refineVars, sectionVars>>

\* the check of line 132 left out: Step 2 is entered with whatever was
\* gathered
CheckEmptyRanksAnyway ==
    /\ pc = "check_empty"
    /\ pc' = "rank"
    /\ UNCHANGED <<mode, num_docs, doc_idx, doc, fail_at, outline, outline_result,
                   failures, outlined, saved, all_extracted_sections, result>>
    /\ UNCHANGED <<lineVars, titleVars, styleVars, refineVars, sectionVars>>

\* if not all_extracted_sections: return the empty structure
CheckEmpty ==
    /\ pc = "check_empty"
    /\ IF all_extracted_sections = <<>>
       THEN /\ result' = [extracted_sections |-> <<>>, sub_section_analysis |-> <<>>]
            /\ pc' = "done"
       ELSE /\ pc' = "rank"
            /\ UNCHANGED result
    /\ UNCHANGED <<mode, num_docs, doc_idx, doc, fail_at, outline, outline_result,
                   failures, outlined, saved, all_extracted_sections>>
    /\ UNCHANGED <<lineVars, titleVars, styleVars, refineVars, sectionVars>>

Next == Extract \/ Save \/ Gather \/ CheckEmpty

Spec == Init /\ [][Next]_vars

\* C1: in the outline returned for one document no two entries share the
\* same (lowercased text, page) pair.
C1_UniqueEntries ==
    \A i, j \in 1..Len(outline_result.outline) :
        (/\ Lower(outline_result.outline[i].text) = Lower(outline_result.outline[j].text)
         /\ outline_result.outline[i].page = outline_result.outline[j].page)
            => i = j

\* the deduplication pass dropped a duplicate and returned several entries
C1_Witness ==
    /\ fail_at = "none"
    /\ Len(outline_result.outline) >= 2
    /\ Len(outline) > Len(outline_result.outline)

\* the key of an outline entry in the deduplication
EntryKey(e) == <<Lower(e.text), e.page>>

\* the indices of the accepted entries whose key no earlier entry has
FirstOfKey ==
    {i \in 1..Len(outline) :
        \A j \in 1..(i - 1) : EntryKey(outline[j]) # EntryKey(outline[i])}

\* the n-th smallest element of a set of numbers
Nth(S, n) == CHOOSE i \in S : Cardinality({j \in S : j <= i}) = n

\* C16: the final outline is the subsequence of the accepted entries made
\* of the first occurrence of every (lowercased text, page) key, in reading
\* order: an entry that differs only in case from an earlier one on the
\* same page is dropped, the same text on another page is kept.
C16_KeepsFirstOccurrence ==
    (pc \in {"save", "gather", "raised"} /\ fail_at = "none") =>
        /\ Len(outline_result.outline) = Cardinality(FirstOfKey)
        /\ \A n \in 1..Len(outline_result.outline) :
              outline_result.outline[n] = outline[Nth(FirstOfKey, n)]

\* "Intro" and "INTRO" on one page and "Intro" again on another: the
\* second is dropped, the third is kept
C16_Witness ==
    /\ pc \in {"save", "gather"}
    /\ fail_at = "none"
    /\ Len(outline) = 3
    /\ outline[1].text # outline[2].text
    /\ Lower(outline[1].text) = Lower(outline[2].text)
    /\ outline[1].page = outline[2].page
    /\ outline[3].text = outline[1].text
    /\ outline[3].page # outline[1].page
    /\ outline_result.outline = <<outline[1], outline[3]>>

\* the start title of outline entry e is in no line of the PDF
MissingAnchor(e) ==
    \A p \in 1..Len(doc) : \A l \in 1..Len(doc[p]) :
        ~Contains(Strip(doc[p][l].text), e.text)

\* the section records of all_extracted_sections made from outline entry e
\* of the current PDF
SectionsOf(e) ==
    {k \in 1..Len(all_extracted_sections) :
        /\ all_extracted_sections[k].document = doc_idx + 1
        /\ all_extracted_sections[k].page_number = e.page
        /\ all_extracted_sections[k].section_title = e.text}

\* C5: a section whose start title is found in no scanned line is not
\* fatal: the call returns the empty string without raising, and the
\* section is emitted with importance_rank 0.
C5_MissingAnchorNotFatal ==
    \A i \in 1..Len(outline_result.outline) :
        (pc \notin {"gather", "save"} /\ MissingAnchor(outline_result.outline[i]))
            => /\ pc # "raised"
               /\ \E k \in SectionsOf(outline_result.outline[i]) :
                     /\ all_extracted_sections[k].full_text_content = <<>>
                     /\ all_extracted_sections[k].importance_rank = 0

\* descending importance_rank, equal ranks in input order: document order,
\* then the order of the outline, which ascends in page
RankedInInputOrder(sections) ==
    \A i, j \in 1..Len(sections) :
        i < j =>
            \/ sections[i].importance_rank > sections[j].importance_rank
            \/ /\ sections[i].importance_rank = sections[j].importance_rank
               /\ \/ sections[i].document < sections[j].document
                  \/ /\ sections[i].document = sections[j].document
                     /\ sections[i].page_number <= sections[j].page_number

\* C4: the run returns extracted_sections as a permutation of the sections
\* of all input documents, one record per outline entry of every document,
\* sorted by descending importance_rank with ties in input order.
C4_RankedOutput ==
    (pc \in {"done", "raised"} /\ mode = "collection") =>
        /\ pc = "done"
        /\ Len(result.extracted_sections) = outlined
        /\ RankedInInputOrder(result.extracted_sections)

\* C6: a PDF whose opening or parsing fails at any point yields exactly
\* {title: "Error Processing Document", outline: []}; the run goes on with
\* the next PDF, and in collection mode the failed PDF adds no section and
\* leaves the sections gathered from the other PDFs as they are.
C6_FailedResult ==
    (pc \in {"save", "gather", "raised"} /\ fail_at # "none")
        => /\ outline_result = ErrorResult
           /\ pc # "raised"

C6_RunGoesOn ==
    (pc \in {"save", "gather"} /\ fail_at # "none")
        => /\ doc_idx' = doc_idx + 1
           /\ pc' = IF doc_idx + 1 < num_docs THEN "extract"
                    ELSE IF mode = "outline" THEN "done" ELSE "check_empty"
           /\ all_extracted_sections' = all_extracted_sections
           /\ saved' = IF mode = "outline" THEN saved + 1 ELSE saved

C6_FailureIsolated == [](C6_FailedResult) /\ [][C6_RunGoesOn]_vars

\* a PDF is handled in collection mode after the extraction of an earlier
\* PDF of the same run failed
C6_Witness ==
    /\ mode = "collection"
    /\ failures >= 1
    /\ doc_idx >= 1
    /\ pc = "gather"
    /\ fail_at = "none"
    /\ doc # <<>>

\* the ranking step is never reached
RankUnreached == pc # "rank" /\ all_extracted_sections = <<>>

\* C11: EmptyCorpus.  When no section is extracted from any input document
\* (every outline empty or every document failed),
\* analyze_document_collection returns extracted_sections = [] and
\* sub_section_analysis = [] without reaching Step 2 or Step 3 and without
\* raising.
C11_EmptyCorpus ==
    (mode = "collection" /\ outlined = 0) =>
        /\ pc \notin {"raised", "rank"}
        /\ all_extracted_sections = <<>>
        /\ (doc_idx = num_docs) => pc \in {"check_empty", "done"}
        /\ (pc = "done") =>
              result = [extracted_sections |-> <<>>, sub_section_analysis |-> <<>>]

\* a run over two PDFs, one that failed and one with an empty outline, has
\* returned
C11_Witness ==
    /\ mode = "collection"
    /\ num_docs = 2
    /\ doc_idx = 2
    /\ failures = 1
    /\ outlined = 0
    /\ pc = "done"

(***************************************************************************)
(* SpecLine3: analyze_document_styles of ext3 on a document with some      *)
(* histogram of word sizes, then the Phase 3 loop body on one row.         *)
(***************************************************************************)
\* rounded sizes (points) that words of the document may have
StyleSizes == {10, 12, 14, 16, 18, 20}

\* sizes of the first word of a row, in hundredths of a point
RowSizes == {1000, 1150, 1200, 1250, 1400, 1600, 1800, 2000}

InitLine3 ==
    /\ sorted_sizes = <<>>
    /\ font_stats = FontStats(<<>>)
    /\ line = NoLine
    /\ appended = <<>>
    /\ TitleIdle
    /\ RefineIdle
    /\ RunIdle
    /\ font_sizes \in [StyleSizes -> 0..2]
    /\ \E x \in StyleSizes : font_sizes[x] > 0
    /\ body_size \in BodySizes(font_sizes)
    /\ heading_sizes = HeadingSizes(font_sizes, body_size)

ProcessLine3 ==
    /\ line = NoLine
    /\ \E raw \in SampleLines, raw_size \in RowSizes, is_bold \in BOOLEAN :
          /\ font_sizes[Round(raw_size, 100)] > 0
          /\ line' = [text |-> raw, size |-> raw_size, bold |-> is_bold]
          /\ appended' = HeadingEntries3(raw, raw_size, is_bold, heading_sizes, 1)
    /\ UNCHANGED <<sorted_sizes, font_stats>>
    /\ UNCHANGED titleVars
    /\ UNCHANGED styleVars
    /\ UNCHANGED refineVars
    /\ UNCHANGED runVars

NextLine3 == ProcessLine3

SpecLine3 == InitLine3 /\ [][NextLine3]_vars

\* C9: every entry appended to an outline has a level in {H1, H2, H3, H4},
\* for a document with any number of distinct font sizes.
C9_LevelsInRange ==
    \A i \in 1..Len(appended) : appended[i].level \in Levels

(***************************************************************************)
(* SpecRefine: the body of the Step 3 loop on one ranked section, for the  *)
(* sentences the NLP collaborator returns for its text.                    *)
(***************************************************************************)
\* query lemmas: "persona" is 1, "job" is 2
Queries == {{1, 2}, {1, 2, 3}}

SentenceKinds ==
    {[id |-> "near", len |-> 400, keywords |-> {1, 7}],
     [id |-> "exact", len |-> 700, keywords |-> {1, 2}],
     [id |-> "off", len |-> 300, keywords |-> {8, 9}],
     [id |-> "long", len |-> 1001, keywords |-> {2}],
     [id |-> "diluted", len |-> 200, keywords |-> {1} \cup (10..29)]}

\* the text of a section that has one: "Intro" followed by its body
SomeText == D_Intro \o <<" ">> \o D_Body

InitRefine ==
    /\ LineIdle
    /\ TitleIdle
    /\ StyleIdle
    /\ RunIdle
    /\ query_keywords \in Queries
    /\ rank_pos \in 0..top_n_sections_for_sub_analysis
    /\ \E text \in {<<>>, SomeText}, rank \in 0..1 :
          /\ text = <<>> => rank = 0
          /\ section = [document |-> 1, page_number |-> 1,
                        section_title |-> D_Intro, full_text_content |-> text,
                        importance_rank |-> rank]
    /\ sents \in UNION {[1..n -> SentenceKinds] : n \in 0..MaxSentences}
    /\ (section.full_text_content = <<>>) = (sents = <<>>)
    /\ sub_section_analysis = <<>>
    /\ refined = FALSE
    /\ ranked_sections = <<>>

RefineSection ==
    /\ ~refined
    /\ refined' = TRUE
    /\ sub_section_analysis' =
          sub_section_analysis \o RefinedEntries(rank_pos, section, sents, query_keywords)
    /\ UNCHANGED <<query_keywords, rank_pos, section, sents, ranked_sections>>
    /\ UNCHANGED <<lineVars, titleVars, styleVars, runVars>>

NextRefine == RefineSection

SpecRefine == InitRefine /\ [][NextRefine]_vars

\* Jaccard overlap of a sentence with the query above 0.05
Overlaps(sentence) ==
    100 * Cardinality(query_keywords \cap sentence.keywords)
        > 5 * Cardinality(query_keywords \cup sentence.keywords)

\* C7: a section none of whose sentences has Jaccard overlap above the
\* threshold is absent from sub_section_analysis, and no entry is emitted
\* without a retained sentence.
C7_NoEmptyEntry ==
    /\ \A k \in 1..Len(sub_section_analysis) :
          sub_section_analysis[k].refined_text # <<>>
    /\ (refined /\ \A k \in 1..Len(sents) : ~Overlaps(sents[k]))
          => sub_section_analysis = <<>>

\* a section among the first five, with sentences, none of them above the
\* threshold, has been refined and left no entry
C7_Witness ==
    /\ refined
    /\ rank_pos < top_n_sections_for_sub_analysis
    /\ Len(sents) >= 2
    /\ \A k \in 1..Len(sents) : ~Overlaps(sents[k])
    /\ \E k \in 1..Len(sents) : query_keywords \cap sents[k].keywords # {}
    /\ sub_section_analysis = <<>>

\* C10: the refined_text of every entry of sub_section_analysis is at most
\* 1000 characters long.
C10_RefinedTextCapped ==
    \A k \in 1..Len(sub_section_analysis) :
        JoinedLen(sub_section_analysis[k].refined_text) <= 1000

\* cumulative length of the sentences among the first k that overlap
RetainedLen(k) == TotalLen(SelectSeq(SubSeq(sents, 1, k), Overlaps))

\* the first sentence at which that length exceeds the limit, or the last
\* sentence
CutAt ==
    LET over == {k \in 1..Len(sents) : RetainedLen(k) > 1000}
    IN  IF over = {} THEN Len(sents) ELSE Min(over)

\* C14: for a refined section the retained sentences are, in original
\* order, exactly the sentences with Jaccard similarity above 0.05 among the
\* sentences scanned, and the scan stops right after the first sentence at
\* which the cumulative length of the retained sentences exceeds 1000: no
\* later sentence is retained, however relevant.
C14_GreedyPrefixCutoff ==
    (refined /\ rank_pos < 5 /\ section.full_text_content # <<>>) =>
        LET expected == SelectSeq(SubSeq(sents, 1, CutAt), Overlaps)
        IN  IF expected = <<>> THEN sub_section_analysis = <<>>
            ELSE /\ Len(sub_section_analysis) = 1
                 /\ sub_section_analysis[1].refined_text = expected

\* three overlapping sentences, the limit exceeded at the second: the third
\* is not retained
C14_Witness ==
    /\ refined
    /\ Len(sents) = 3
    /\ \A k \in 1..3 : Overlaps(sents[k])
    /\ RetainedLen(1) <= 1000
    /\ RetainedLen(2) > 1000
    /\ Len(sub_section_analysis) = 1
    /\ sub_section_analysis[1].refined_text = SubSeq(sents, 1, 2)

(***************************************************************************)
(* SpecRank: Steps 2 and 3 of analyze_document_collection on a list of     *)
(* gathered sections.  Section k of the list is the k-th outline entry in  *)
(* input order; its page_number is k.                                      *)
(***************************************************************************)
\* cosine similarities, as levels: 0 is 0.0
Similarities == 0..2

\* what the NLP collaborator returns for the text of a section here
ShortTexts ==
    {<<[id |-> "near", len |-> 400, keywords |-> {1, 7}]>>,
     <<[id |-> "off", len |-> 300, keywords |-> {8, 9}]>>}

InitRank ==
    /\ LineIdle
    /\ TitleIdle
    /\ StyleIdle
    /\ SectionIdle
    /\ mode = "collection"
    /\ num_docs = 1
    /\ doc_idx = 1
    /\ doc = <<>>
    /\ fail_at = "none"
    /\ outline = <<>>
    /\ outline_result = NoResult
    /\ failures = 0
    /\ \E n \in 1..MaxSections :
          /\ outlined = n
          /\ \E texts \in [1..n -> {<<>>, SomeText}] :
                all_extracted_sections =
                    [k \in 1..n |->
                        [document |-> 1, page_number |-> k,
                         section_title |-> D_Intro,
                         full_text_content |-> texts[k],
                         importance_rank |-> 0]]
    /\ saved = 0
    /\ pc = "rank"
    /\ result = NoReturn
    /\ query_keywords = {1, 2}
    /\ rank_pos = 0
    /\ section = NoSection
    /\ sents = <<>>
    /\ sub_section_analysis = <<>>
    /\ refined = FALSE
    /\ ranked_sections = <<>>

\* Step 2: the similarity of every section to the query, and the sort
Rank ==
    /\ pc = "rank"
    /\ \E similarities \in [1..Len(all_extracted_sections) -> Similarities] :
          /\ \A k \in 1..Len(all_extracted_sections) :
                all_extracted_sections[k].full_text_content = <<>>
                    => similarities[k] = 0
          /\ all_extracted_sections' =
                [k \in 1..Len(all_extracted_sections) |->
                    [all_extracted_sections[k] EXCEPT !.importance_rank = similarities[k]]]
          /\ ranked_sections' = SortByRank(all_extracted_sections')
    /\ pc' = "refine"
    /\ UNCHANGED <<mode, num_docs, doc_idx, doc, fail_at, outline, outline_result,
                   failures, outlined, saved, result>>
    /\ UNCHANGED <<query_keywords, rank_pos, section, sents, sub_section_analysis,
                   refined>>
    /\ UNCHANGED <<lineVars, titleVars, styleVars, sectionVars>>

\* Step 3 and the return
RefineAndReturn ==
    /\ pc = "refine"
    /\ \E sentences \in [1..Len(ranked_sections) -> ShortTexts \cup {<<>>}] :
          /\ \A k \in 1..Len(ranked_sections) :
                (sentences[k] = <<>>) = (ranked_sections[k].full_text_content = <<>>)
          /\ sub_section_analysis' = RefineFrom(ranked_sections, 0, sentences, query_keywords)
          /\ result' =
                [extracted_sections |->
                    [k \in 1..Len(ranked_sections) |-> WithoutText(ranked_sections[k])],
                 sub_section_analysis |-> sub_section_analysis']
    /\ pc' = "done"
    /\ UNCHANGED <<mode, num_docs, doc_idx, doc, fail_at, outline, outline_result,
                   failures, outlined, saved, all_extracted_sections>>
    /\ UNCHANGED <<query_keywords, rank_pos, section, sents, refined, ranked_sections>>
    /\ UNCHANGED <<lineVars, titleVars, styleVars, sectionVars>>

NextRank == Rank \/ RefineAndReturn

SpecRank == InitRank /\ [][NextRank]_vars

\* the sort of Step 2 by itself: extracted_sections holds every gathered
\* section once, in descending importance_rank, equal ranks in input order
SortIsStable ==
    pc = "done" =>
        /\ Len(result.extracted_sections) = outlined
        /\ \A k \in 1..outlined : \E i \in 1..outlined :
              result.extracted_sections[i].page_number = k
        /\ \A i, j \in 1..outlined :
              i < j =>
                  \/ result.extracted_sections[i].importance_rank
                        > result.extracted_sections[j].importance_rank
                  \/ /\ result.extracted_sections[i].importance_rank
                           = result.extracted_sections[j].importance_rank
                     /\ result.extracted_sections[i].page_number
                           < result.extracted_sections[j].page_number

\* the position in ranked_sections of the section an entry was made from
RankedPos(entry) ==
    CHOOSE i \in 1..Len(ranked_sections) :
        ranked_sections[i].page_number = entry.page_number

\* C15: refinement works on the top 5 ranked sections only:
\* sub_section_analysis has at most 5 entries, each made from a section at
\* one of the first 5 positions of the ranked order that has a non-empty
\* body, listed in ranked order; a section ranked 6th or lower is never
\* refined, even when some of the first 5 have empty bodies.
C15_TopFiveOnly ==
    pc = "done" =>
        /\ Len(result.sub_section_analysis) <= 5
        /\ \A k \in 1..Len(result.sub_section_analysis) :
              LET entry == result.sub_section_analysis[k]
              IN  /\ \E i \in 1..Len(ranked_sections) :
                        ranked_sections[i].page_number = entry.page_number
                  /\ RankedPos(entry) <= 5
                  /\ ranked_sections[RankedPos(entry)].full_text_content # <<>>
                  /\ ranked_sections[RankedPos(entry)].document = entry.document
        /\ \A k, l \in 1..Len(result.sub_section_analysis) :
              k < l => RankedPos(result.sub_section_analysis[k])
                          < RankedPos(result.sub_section_analysis[l])

\* six ranked sections, one of the first five without a body, the sixth
\* with one: the four sections with a body among the first five are refined
C15_Witness ==
    /\ pc = "done"
    /\ Len(ranked_sections) = 6
    /\ ranked_sections[6].full_text_content # <<>>
    /\ \E i \in 1..5 : ranked_sections[i].full_text_content = <<>>
    /\ Len(result.sub_section_analysis) = 4
    /\ \A k \in 1..4 : RankedPos(result.sub_section_analysis[k]) <= 5

(***************************************************************************)
(* SpecSection: Step 1 for one outline entry of one PDF: its section       *)
(* boundary (lines 105-113) and the scan of get_text_content_for_section   *)
(* (lines 45-75) over the lines the PDF collaborator gives for the pages.  *)
(***************************************************************************)
D_IntroB == <<"I", "n", "t", "r", "o", " ", "B">>

SectionLines ==
    {[text |-> D_Intro, size |-> 1200, bold |-> TRUE],
     [text |-> D_IntroB, size |-> 1200, bold |-> TRUE],
     [text |-> L_Plain, size |-> 1200, bold |-> TRUE],
     [text |-> D_Body, size |-> 1000, bold |-> FALSE]}

SectionPages == UNION {[1..n -> SectionLines] : n \in 0..MaxDocLines}

SectionDocs ==
    {d \in UNION {[1..n -> SectionPages] : n \in 1..MaxPages} :
        TotalLines(d) <= MaxDocLines}

\* section_boundaries for an outline; a missing next entry is the empty
\* title and page 0
SectionBoundaries(entries) ==
    [i \in 1..Len(entries) |->
        [title |-> entries[i].text,
         page |-> entries[i].page,
         next_title |-> IF i + 1 <= Len(entries) THEN entries[i + 1].text ELSE <<>>,
         next_page |-> IF i + 1 <= Len(entries) THEN entries[i + 1].page ELSE 0]]

InitSection ==
    /\ LineIdle
    /\ TitleIdle
    /\ StyleIdle
    /\ RefineIdle
    /\ mode = "section"
    /\ num_docs = 1
    /\ doc_idx = 0
    /\ doc \in SectionDocs
    /\ fail_at = "none"
    /\ outline = OutlineBeforeDedup(doc, "none")
    /\ outline_result = ExtractOutline(doc, "none")
    /\ failures = 0
    /\ outlined = Len(outline_result.outline)
    /\ saved = 0
    /\ all_extracted_sections = <<>>
    /\ pc = "scan"
    /\ result = NoReturn
    /\ \E i \in 1..Len(outline_result.outline) :
          section_info = SectionBoundaries(outline_result.outline)[i]
    /\ text_content_parts = <<>>

\* the loop over the pages from the start page on
ScanSection ==
    /\ pc = "scan"
    /\ text_content_parts' =
          ScanPages(doc, section_info.page, section_info.title,
                    section_info.next_page, section_info.next_title)
    /\ pc' = "scanned"
    /\ UNCHANGED <<mode, num_docs, doc_idx, doc, fail_at, outline, outline_result,
                   failures, outlined, saved, all_extracted_sections, result,
                   section_info>>
    /\ UNCHANGED <<lineVars, titleVars, styleVars, refineVars>>

NextSection == ScanSection

SpecSection == InitSection /\ [][NextSection]_vars

\* the positions <<page, line>> of the PDF
SectionPositions ==
    UNION {{<<p, k>> : k \in 1..Len(doc[p])} : p \in 1..Len(doc)}

\* reading order
Before(a, b) == a[1] < b[1] \/ (a[1] = b[1] /\ a[2] < b[2])

First(S) == CHOOSE a \in S : \A b \in S : a = b \/ Before(a, b)

\* the positions of the lines in the body of the section
Body == {text_content_parts[i] : i \in 1..Len(text_content_parts)}

TitleAt(pos, t) == Contains(Strip(doc[pos[1]][pos[2]].text), t)

\* the lines of the start page that contain the start title
StartLines ==
    {pos \in SectionPositions :
        pos[1] = section_info.page /\ TitleAt(pos, section_info.title)}

HasNext == section_info.next_page # 0

\* the lines of the end page, after the start, that contain the title of
\* the end locator
EndLines ==
    {pos \in SectionPositions :
        /\ pos[1] = section_info.next_page
        /\ Before(First(StartLines), pos)
        /\ TitleAt(pos, section_info.next_title)}

\* C12: once the start title has been found on the start page, every later
\* line is in the body, the lines of later pages included, up to the line of
\* the end page where the end-locator title is found or, for the last
\* section, up to the end of the document.
C12_AccumulatesAcrossPages ==
    (pc = "scanned" /\ StartLines # {}) =>
        \A pos \in SectionPositions :
            (/\ ~Before(pos, First(StartLines))
             /\ HasNext => (EndLines # {} /\ Before(pos, First(EndLines))))
                => pos \in Body

\* the lines of the PDF from which the next outline entry was made
NextHeadingLines ==
    {pos \in SectionPositions :
        /\ pos[1] = section_info.next_page
        /\ clean_text(doc[pos[1]][pos[2]].text) = section_info.next_title
        /\ HeadingEntries(doc[pos[1]][pos[2]].text, doc[pos[1]][pos[2]].size,
                          doc[pos[1]][pos[2]].bold,
                          FontStats(SortDesc(DocSizes(doc))), pos[1]) # <<>>}

\* C13: for consecutive outline entries the body of the first holds neither
\* the line of the next heading nor any line after it, also when the next
\* heading is on a later page and when the start title is a substring of
\* the next title.
C13_BodyEndsBeforeNextHeading ==
    (pc = "scanned" /\ HasNext) =>
        \A pos \in Body : Before(pos, First(NextHeadingLines))

====
